---- MODULE Spec2Model ----
(***************************************************************************)
(* Real-time AHP site suitability (src/app.py, src/app2.py).               *)
(*                                                                         *)
(* Numbers.  Python floats are modelled by exact rationals <<n, d>> in     *)
(* lowest terms with d > 0; an absent value (Python None) is the empty     *)
(* tuple <<>>.                                                             *)
(***************************************************************************)
EXTENDS Integers, Sequences, FiniteSets, TLC

VARIABLES
    \* AHPModel (src/app.py 58-103): its three weight tables, the number of
    \* setter calls made so far, and the argument and the return value of the
    \* most recent call when that call was score (None after a setter, which
    \* returns nothing)
    main_weights, sub_weights_local, sub_weights_global,
    nsets, score_in, score_out,
    \* overpass_nearest_distance_km (src/app.py 167-193): the features of the
    \* queried category held by the spatial source, the position in the
    \* function, its arguments, its local rad, the queries posted so far with
    \* the outcome of each, the elements of the last non-empty response, and
    \* the return value
    res_features, res_pc, res_key, res_start, res_max, rad,
    res_queries, res_elements, res_ret,
    \* the page (src/app.py 335-367): the entered point, the st.cache_data
    \* memo of the four fetchers, the memo of cached_get, the session's
    \* raw_layers, and of the last click on "Fetch Live Layers" the source
    \* calls it made and those of them that failed, and the sources that were
    \* unreachable at that click
    point, fn_cache, get_cache, raw_layers, fetch_called, fetch_failed, src_down,
    \* the page (src/app.py 308-329, 369-410): the calibration entered in
    \* the sidebar, the texts of the ten manual inputs, and the site_values the
    \* last run of the script built, with the score and the recommendation it
    \* showed (src/app.py 412-429)
    calib, manual, site_values, final_score, rec,
    \* one call of norm_benefit and one of norm_cost (src/app.py 225-240) on
    \* the same arguments, and one call of score_to_text (src/app2.py 118-122):
    \* the arguments, and the return values (None before the call)
    arg_x, arg_min_v, arg_max_v, ret_benefit, ret_cost, arg_score, ret_text,
    \* one set_main_weight or set_local_weight call and one score call on the
    \* same AHPModel from two threads (src/app.py 80-103): the position of
    \* each, and the locals of score (the loop position, total and max_sum)
    set_pc, sc_pc, sc_i, sc_total, sc_max,
    \* the AHPModel of src/app2.py (54-95) driven beside that of src/app.py,
    \* and of the most recent call made on both files its name and arguments,
    \* what app.py returned and what app2.py returned
    app2_main_weights, app2_sub_weights_local, app2_sub_weights_global,
    twin_call, twin_ret, twin_ret2

ahpVars == <<main_weights, sub_weights_local, sub_weights_global,
             nsets, score_in, score_out>>

resVars == <<res_features, res_pc, res_key, res_start, res_max, rad,
             res_queries, res_elements, res_ret>>

fetchVars ==
    <<point, fn_cache, get_cache, raw_layers, fetch_called, fetch_failed, src_down>>

pageVars == <<calib, manual, site_values, final_score, rec>>

callVars == <<arg_x, arg_min_v, arg_max_v, ret_benefit, ret_cost, arg_score, ret_text>>

concVars == <<set_pc, sc_pc, sc_i, sc_total, sc_max>>

twinVars == <<app2_main_weights, app2_sub_weights_local, app2_sub_weights_global,
              twin_call, twin_ret, twin_ret2>>

vars == <<ahpVars, resVars, fetchVars, pageVars, callVars, concVars, twinVars>>

\* what the operations of one component leave alone
notAhp == <<resVars, fetchVars, pageVars, callVars, concVars>>

notRes == <<ahpVars, fetchVars, pageVars, callVars, concVars, twinVars>>


notPage == <<ahpVars, resVars, callVars, concVars, twinVars>>

notCall == <<ahpVars, resVars, fetchVars, pageVars, concVars, twinVars>>

notConc == <<resVars, fetchVars, pageVars, callVars, twinVars>>

(***************************************************************************)
(* Exact rational arithmetic                                               *)
(***************************************************************************)
None == <<>>

Abs(x) == IF x < 0 THEN -x ELSE x

RECURSIVE GCD(_, _)
GCD(a, b) == IF b = 0 THEN a ELSE GCD(b, a % b)

RECURSIVE Pow(_, _)
Pow(b, k) == IF k = 0 THEN 1 ELSE b * Pow(b, k - 1)

\* n/d in lowest terms, d # 0
Rat(n, d) ==
    LET g == GCD(Abs(n), Abs(d))
        s == IF d < 0 THEN -1 ELSE 1
    IN  <<(s * n) \div g, (s * d) \div g>>

Zero == <<0, 1>>
One == <<1, 1>>

RAdd(a, b) ==
    LET g == GCD(a[2], b[2])
        l == (a[2] \div g) * b[2]
    IN  Rat(a[1] * (l \div a[2]) + b[1] * (l \div b[2]), l)

RNeg(a) == <<-a[1], a[2]>>

RSub(a, b) == RAdd(a, RNeg(b))

RMul(a, b) ==
    LET g1 == GCD(Abs(a[1]), b[2])
        g2 == GCD(Abs(b[1]), a[2])
    IN  Rat((a[1] \div g1) * (b[1] \div g2), (a[2] \div g2) * (b[2] \div g1))

\* a / b, b # 0
RDiv(a, b) == RMul(a, Rat(b[2], b[1]))

RLt(a, b) == a[1] * b[2] < b[1] * a[2]

RLe(a, b) == a[1] * b[2] <= b[1] * a[2]

(***************************************************************************)
(* AHPModel                                                                *)
(***************************************************************************)
criteria == <<"Technical", "Environmental", "Social">>

sub_criteria ==
    [Technical |-> <<"Solar Radiation", "Slope", "Proximity to Grid", "Land Cost">>,
     Environmental |-> <<"Land Use", "Distance from Protected Areas", "Water Body Buffer">>,
     Social |-> <<"Distance from Roads", "Proximity to Demand Centers", "Population Density">>]

Range(s) == {s[i] : i \in DOMAIN s}

Criteria == Range(criteria)

SubsOf(crit) == Range(sub_criteria[crit])

AllSubs == UNION {SubsOf(c) : c \in Criteria}

CritOf(sub) == CHOOSE c \in Criteria : sub \in SubsOf(c)

\* __init__: the default weights
default_main_weights ==
    [Technical |-> Rat(693, 1000), Environmental |-> Rat(187, 1000),
     Social |-> Rat(80, 1000)]

default_sub_weights_local ==
    [Technical |-> [c \in SubsOf("Technical") |->
        CASE c = "Solar Radiation" -> Rat(558, 1000)
          [] c = "Slope" -> Rat(262, 1000)
          [] c = "Proximity to Grid" -> Rat(130, 1000)
          [] c = "Land Cost" -> Rat(50, 1000)],
     Environmental |-> [c \in SubsOf("Environmental") |->
        CASE c = "Land Use" -> Rat(258, 1000)
          [] c = "Distance from Protected Areas" -> Rat(637, 1000)
          [] c = "Water Body Buffer" -> Rat(105, 1000)],
     Social |-> [c \in SubsOf("Social") |->
        CASE c = "Distance from Roads" -> Rat(637, 1000)
          [] c = "Proximity to Demand Centers" -> Rat(258, 1000)
          [] c = "Population Density" -> Rat(105, 1000)]]

\* a plausible slip: the rebuild copies the local weight and forgets the main one
compute_global_unscaled(main, local) ==
    [crit \in Criteria |-> [sub \in DOMAIN local[crit] |-> local[crit][sub]]]

\* _compute_global: g[crit][sub] = main_weights[crit] * w for every local (sub, w)
compute_global(main, local) ==
    [crit \in Criteria |->
        [sub \in DOMAIN local[crit] |-> RMul(main[crit], local[crit][sub])]]

\* global_weight(crit, sub): a read of the derived table
global_weight(crit, sub) == sub_weights_global[crit][sub]

\* site_values.get(sub, 0)
SiteGet(sv, sub) == IF sub \in DOMAIN sv THEN sv[sub] ELSE Zero

\* the inner "for sub in self.sub_criteria[crit]" loop of the total
RECURSIVE TotalOverSubs(_, _, _, _)
TotalOverSubs(g, sv, crit, subs) ==
    IF subs = <<>> THEN Zero
    ELSE RAdd(RMul(SiteGet(sv, Head(subs)), g[crit][Head(subs)]),
              TotalOverSubs(g, sv, crit, Tail(subs)))

\* the outer "for crit in self.criteria" loop of the total
RECURSIVE TotalOverCrit(_, _, _)
TotalOverCrit(g, sv, crits) ==
    IF crits = <<>> THEN Zero
    ELSE RAdd(TotalOverSubs(g, sv, Head(crits), sub_criteria[Head(crits)]),
              TotalOverCrit(g, sv, Tail(crits)))

\* the inner loop of max_sum
RECURSIVE MaxOverSubs(_, _, _)
MaxOverSubs(g, crit, subs) ==
    IF subs = <<>> THEN Zero
    ELSE RAdd(RMul(One, g[crit][Head(subs)]), MaxOverSubs(g, crit, Tail(subs)))

\* the outer loop of max_sum
RECURSIVE MaxOverCrit(_, _)
MaxOverCrit(g, crits) ==
    IF crits = <<>> THEN Zero
    ELSE RAdd(MaxOverSubs(g, Head(crits), sub_criteria[Head(crits)]),
              MaxOverCrit(g, Tail(crits)))

\* a plausible slip: the total is returned without the division by max_sum
score_unnormalized(g, sv) == TotalOverCrit(g, sv, criteria)

\* a plausible slip: the total divided by the number of sub-criteria
score_by_count(g, sv) ==
    RDiv(TotalOverCrit(g, sv, criteria), <<Cardinality(AllSubs), 1>>)

\* AHPModel.score: total / max_sum if max_sum else 0.0
score(g, sv) ==
    LET total == TotalOverCrit(g, sv, criteria)
        max_sum == MaxOverCrit(g, criteria)
    IN  IF max_sum # Zero THEN RDiv(total, max_sum) ELSE Zero

(***************************************************************************)
(* AHPModel of src/app2.py                                                 *)
(***************************************************************************)
\* the defaults of app2.py's __init__ are those of app.py's, digit for digit
\* _compute_global of app2.py
app2_compute_global(main, local) ==
    [crit \in Criteria |->
        [sub \in DOMAIN local[crit] |-> RMul(main[crit], local[crit][sub])]]

\* the sub-criteria in the order "for crit in criteria for sub in
\* sub_criteria[crit]" visits them
SubOrder == sub_criteria["Technical"] \o sub_criteria["Environmental"] \o sub_criteria["Social"]

\* total of app2.py's score: the nested loops
RECURSIVE app2_total(_, _, _)
app2_total(g, sv, subs) ==
    IF subs = <<>> THEN Zero
    ELSE LET sub == subs[Len(subs)]
         IN  RAdd(app2_total(g, sv, SubSeq(subs, 1, Len(subs) - 1)),
                  RMul(SiteGet(sv, sub), g[CritOf(sub)][sub]))

\* max_sum of app2.py's score: sum(... for crit ... for sub ...)
RECURSIVE app2_max_sum(_, _)
app2_max_sum(g, subs) ==
    IF subs = <<>> THEN Zero
    ELSE LET sub == subs[Len(subs)]
         IN  RAdd(app2_max_sum(g, SubSeq(subs, 1, Len(subs) - 1)), g[CritOf(sub)][sub])

\* AHPModel.score of app2.py
app2_score(g, sv) ==
    LET total == app2_total(g, sv, SubOrder)
        max_sum == app2_max_sum(g, SubOrder)
    IN  IF max_sum # Zero THEN RDiv(total, max_sum) ELSE Zero

(***************************************************************************)
(* Inputs of the weight model                                              *)
(***************************************************************************)
MaxSets == 3

\* values handed to the setters
WeightVals == {Zero, Rat(1, 2)}

\* the local weights the setter is called on: one sub-criterion of each group
LocalSetInputs ==
    {<<"Technical", "Slope">>, <<"Environmental", "Land Use">>,
     <<"Social", "Population Density">>}

\* three value profiles over the ten sub-criteria
SubIndex(sub) ==
    CHOOSE i \in 1..10 :
        (criteria[1] = CritOf(sub) /\ i \in 1..4 /\ sub_criteria[CritOf(sub)][i] = sub)
        \/ (criteria[2] = CritOf(sub) /\ i \in 5..7 /\ sub_criteria[CritOf(sub)][i - 4] = sub)
        \/ (criteria[3] = CritOf(sub) /\ i \in 8..10 /\ sub_criteria[CritOf(sub)][i - 7] = sub)

ValueProfiles ==
    {[s \in AllSubs |-> One],
     [s \in AllSubs |-> Rat(SubIndex(s), 10)],
     [s \in AllSubs |-> Rat(1, (SubIndex(s) % 3) + 1)]}

ValueDomains ==
    {AllSubs, {}} \cup {AllSubs \ {s} : s \in {"Solar Radiation", "Land Use", "Population Density"}}
                  \cup {{s} : s \in {"Slope", "Distance from Roads"}}

Restrict(f, D) == [x \in D |-> f[x]]

\* the same value for every sub-criterion
UniformValues == {Zero, Rat(7, 10), One}

SiteValueInputs ==
    {Restrict(p, D) : p \in ValueProfiles, D \in ValueDomains}
        \cup {[s \in AllSubs |-> c] : c \in UniformValues}

(***************************************************************************)
(* Actions of the weight model                                             *)
(***************************************************************************)
AHPInit ==
    /\ main_weights = default_main_weights
    /\ sub_weights_local = default_sub_weights_local
    /\ sub_weights_global = compute_global(default_main_weights, default_sub_weights_local)
    /\ nsets = 0
    /\ score_in = None
    /\ score_out = None

set_main_weight(crit, value) ==
    /\ nsets < MaxSets
    /\ nsets' = nsets + 1
    /\ main_weights' = [main_weights EXCEPT ![crit] = value]
    /\ sub_weights_global' = compute_global(main_weights', sub_weights_local)
    /\ score_in' = None
    /\ score_out' = None
    /\ UNCHANGED <<sub_weights_local, notAhp>>

set_local_weight(crit, sub, value) ==
    /\ nsets < MaxSets
    /\ nsets' = nsets + 1
    /\ sub_weights_local' = [sub_weights_local EXCEPT ![crit][sub] = value]
    /\ sub_weights_global' = compute_global(main_weights, sub_weights_local')
    /\ score_in' = None
    /\ score_out' = None
    /\ UNCHANGED <<main_weights, notAhp>>

ScoreCall(sv) ==
    /\ score_in' = sv
    /\ score_out' = score(sub_weights_global, sv)
    /\ UNCHANGED <<main_weights, sub_weights_local, sub_weights_global, nsets, notAhp>>

SetMain ==
    \E crit \in Criteria, value \in WeightVals :
        set_main_weight(crit, value) /\ UNCHANGED twinVars

SetLocal ==
    \E cs \in LocalSetInputs, value \in WeightVals :
        set_local_weight(cs[1], cs[2], value) /\ UNCHANGED twinVars

Score == \E sv \in SiteValueInputs : ScoreCall(sv) /\ UNCHANGED twinVars

(***************************************************************************)
(* Geospatial resolver: overpass_nearest_distance_km                       *)
(*                                                                         *)
(* The site is the origin.  A feature lies due north of it, dlat degrees   *)
(* away; along a meridian haversine_km is linear in dlat, so it is exact   *)
(* here.  An Overpass element carries its own lat/lon (a node), a center   *)
(* (a way or relation under "out center"), or neither.                     *)
(***************************************************************************)
\* the bounding box is rad/111.0 degrees to each side
BoxKmPerDegree == 111

\* EARTH_R * pi / 180 = 111.195 km per degree, in metres
MetresPerDegree == 111195

\* haversine_km between the site and a point dlat degrees north of it
haversine_km(dlat) == RMul(<<Abs(dlat[1]), dlat[2]>>, Rat(MetresPerDegree, 1000))

OSM_QUERIES == {"roads", "power", "water", "protected", "demand"}

\* bbox = lat-rad/111.0 .. lat+rad/111.0: the features the query returns
InBox(f, r) ==
    LET half == RDiv(r, <<BoxKmPerDegree, 1>>)
    IN  RLe(RNeg(half), f.dlat) /\ RLe(f.dlat, half)

Elements(features, r) == {f \in features : InBox(f, r)}

\* "lat" in el and "lon" in el, or "center" in el
HasCoordinates(el) == el.kind \in {"node", "way"}

\* a plausible slip: the comparison of the running minimum is inverted
RECURSIVE DminLoopInverted(_, _)
DminLoopInverted(els, dmin) ==
    IF els = {} THEN dmin
    ELSE LET el == CHOOSE x \in els : TRUE
             d == haversine_km(el.dlat)
         IN  IF ~HasCoordinates(el) THEN DminLoopInverted(els \ {el}, dmin)
             ELSE DminLoopInverted(els \ {el},
                     IF dmin = None \/ RLt(dmin, d) THEN d ELSE dmin)

\* for el in js["elements"]: d = haversine_km(...) or continue;
\*     dmin = d if (dmin is None or d < dmin) else dmin
RECURSIVE DminLoop(_, _)
DminLoop(els, dmin) ==
    IF els = {} THEN dmin
    ELSE LET el == CHOOSE x \in els : TRUE
             d == haversine_km(el.dlat)
         IN  IF ~HasCoordinates(el) THEN DminLoop(els \ {el}, dmin)
             ELSE DminLoop(els \ {el},
                     IF dmin = None \/ RLt(d, dmin) THEN d ELSE dmin)

\* rad *= 1.7
Widen(r) == RMul(r, <<17, 10>>)

(***************************************************************************)
(* Inputs of the resolver                                                  *)
(***************************************************************************)
MaxFeatures == 2

\* queries of one call; only a call with radius_km = 0 reaches it
MaxQueries == 4

\* offsets north of the site, in 1/111 degree (the unit of the bounding box)
FeatureOffsets == {10, 20, 30, 59, 90}

FeatureUniverse ==
    {[kind |-> k, dlat |-> Rat(u, BoxKmPerDegree)] :
        k \in {"node", "way", "bare"}, u \in FeatureOffsets}

FeatureWorlds == {w \in SUBSET FeatureUniverse : Cardinality(w) <= MaxFeatures}

CallKeys == {"roads", "rail"}

StartRadii == {0, 10, 20, 70}

MaxRadii == {20, 60}

(***************************************************************************)
(* Actions of the resolver                                                 *)
(***************************************************************************)
ResolverIdle ==
    /\ res_pc = "idle"
    /\ res_key = ""
    /\ res_start = Zero
    /\ res_max = Zero
    /\ rad = Zero
    /\ res_queries = <<>>
    /\ res_elements = {}
    /\ res_ret = None

\* if key not in OSM_QUERIES: return None
ResolverCallUnknownKey ==
    /\ res_pc = "idle"
    /\ \E key \in CallKeys \ OSM_QUERIES, start \in StartRadii, max \in MaxRadii :
        /\ res_key' = key
        /\ res_start' = <<start, 1>>
        /\ res_max' = <<max, 1>>
    /\ res_pc' = "done"
    /\ res_ret' = None
    /\ UNCHANGED <<notRes, res_features, rad, res_queries, res_elements>>

\* rad = radius_km
ResolverCallEnter ==
    /\ res_pc = "idle"
    /\ \E key \in CallKeys \cap OSM_QUERIES, start \in StartRadii, max \in MaxRadii :
        /\ res_key' = key
        /\ res_start' = <<start, 1>>
        /\ res_max' = <<max, 1>>
        /\ rad' = <<start, 1>>
    /\ res_pc' = "loop"
    /\ UNCHANGED <<notRes, res_features, res_queries, res_elements, res_ret>>

\* the while condition fails: return None
ResolverExhausted ==
    /\ res_pc = "loop"
    /\ ~RLe(rad, res_max)
    /\ res_pc' = "done"
    /\ res_ret' = None
    /\ UNCHANGED <<notRes, res_features, res_key, res_start, res_max, rad, res_queries,
                   res_elements>>

\* a plausible slip: the handler swallows the error and the loop goes on
ResolverQueryFailRetry ==
    /\ res_pc = "loop"
    /\ RLe(rad, res_max)
    /\ Len(res_queries) < MaxQueries
    /\ res_queries' = Append(res_queries, [rad |-> rad, outcome |-> "fail"])
    /\ UNCHANGED <<notRes, res_features, res_pc, res_key, res_start, res_max, rad,
                   res_elements, res_ret>>

\* requests.post, raise_for_status or json raises: except Exception: return None
ResolverQueryFail ==
    /\ res_pc = "loop"
    /\ RLe(rad, res_max)
    /\ Len(res_queries) < MaxQueries
    /\ res_queries' = Append(res_queries, [rad |-> rad, outcome |-> "fail"])
    /\ res_pc' = "done"
    /\ res_ret' = None
    /\ UNCHANGED <<notRes, res_features, res_key, res_start, res_max, rad, res_elements>>

\* a plausible slip: the radius grows by the factor 1.5
ResolverQueryEmptySlow ==
    /\ res_pc = "loop"
    /\ RLe(rad, res_max)
    /\ Len(res_queries) < MaxQueries
    /\ Elements(res_features, rad) = {}
    /\ res_queries' = Append(res_queries, [rad |-> rad, outcome |-> "empty"])
    /\ rad' = RMul(rad, <<15, 10>>)
    /\ UNCHANGED <<notRes, res_features, res_pc, res_key, res_start, res_max,
                   res_elements, res_ret>>

\* if not js.get("elements"): rad *= 1.7; continue
ResolverQueryEmpty ==
    /\ res_pc = "loop"
    /\ RLe(rad, res_max)
    /\ Len(res_queries) < MaxQueries
    /\ Elements(res_features, rad) = {}
    /\ res_queries' = Append(res_queries, [rad |-> rad, outcome |-> "empty"])
    /\ rad' = Widen(rad)
    /\ UNCHANGED <<notRes, res_features, res_pc, res_key, res_start, res_max,
                   res_elements, res_ret>>

\* a non-empty response: the loop over js["elements"], then return dmin
ResolverQueryHit ==
    /\ res_pc = "loop"
    /\ RLe(rad, res_max)
    /\ Len(res_queries) < MaxQueries
    /\ Elements(res_features, rad) # {}
    /\ res_queries' = Append(res_queries, [rad |-> rad, outcome |-> "hit"])
    /\ res_elements' = Elements(res_features, rad)
    /\ res_ret' = DminLoop(Elements(res_features, rad), None)
    /\ res_pc' = "done"
    /\ UNCHANGED <<notRes, res_features, res_key, res_start, res_max, rad>>

NextResolver ==
    \/ ResolverCallUnknownKey
    \/ ResolverCallEnter
    \/ ResolverExhausted
    \/ ResolverQueryFail
    \/ ResolverQueryEmpty
    \/ ResolverQueryHit


(***************************************************************************)
(* Fetchers and the "Fetch Live Layers" block                              *)
(*                                                                         *)
(* A raw value is None, a rational, or a one-element tuple holding a       *)
(* land-use tag or a point.                                                *)
(***************************************************************************)
\* the keys of the raw record, one per source call
GHI == "Solar Radiation kWh/m2/day"
SLOPE == "Slope deg"
ROAD == "Nearest Road km"
POWER == "Nearest Power Grid km"
WATER == "Nearest Water km"
PROT == "Nearest Protected Area km"
DEMAND == "Nearest Demand Center km"
LANDUSE == "Land Use (OSM)"

\* the OSM_QUERIES key each resolver call of the block passes
OverpassKey ==
    [x \in {ROAD, POWER, WATER, PROT, DEMAND} |->
        CASE x = ROAD -> "roads"
          [] x = POWER -> "power"
          [] x = WATER -> "water"
          [] x = PROT -> "protected"
          [] x = DEMAND -> "demand"]

Calls == {GHI, SLOPE, LANDUSE} \cup DOMAIN OverpassKey

\* the calls that go through cached_get
ViaCachedGet == {GHI, SLOPE}

Points == {"P1", "P2"}

\* What the sources hold for the two points.
\* NASA POWER: the daily series (None for a missing day)
NasaSeries(p) ==
    IF p = "P1" THEN <<(<<4, 1>>), (<<6, 1>>), None, (<<5, 1>>)>>
    ELSE <<None, None>>

\* OpenTopoData: the nine elevations in metres, row by row (None for a void)
Elevations(p) ==
    IF p = "P1"
    THEN <<(<<310>>), (<<300>>), (<<305>>), (<<320>>), (<<322>>), (<<320>>),
           (<<330>>), (<<339>>), (<<333>>)>>
    ELSE <<(<<5>>), (<<5>>), (<<5>>), (<<5>>), None, (<<5>>), (<<5>>), (<<5>>), (<<5>>)>>

\* degrees(atan(sqrt(dz_dx^2 + dz_dy^2))) is computed outside the model: at P1
\* elev[2,1] - elev[0,1] = 39 m over 222 km/1000 and elev[1,2] = elev[1,0]
\* give 9.96 degrees
SlopeOfGrid(p) == <<249, 25>>

\* an element of kind k that lies km kilometres north of the point
Feature(k, km) == [kind |-> k, dlat |-> Rat(km * 1000, MetresPerDegree)]

\* Overpass: the features of each category around the point
OsmFeatures(p, key) ==
    IF p = "P1"
    THEN CASE key = "roads" -> {Feature("way", 15), Feature("way", 30)}
           [] key = "power" -> {Feature("node", 30)}
           [] key = "water" -> {Feature("way", 6)}
           [] key = "protected" -> {Feature("way", 59)}
           [] key = "demand" -> {}
    ELSE CASE key = "roads" -> {Feature("bare", 10), Feature("way", 30)}
           [] key = "power" -> {}
           [] key = "water" -> {Feature("way", 12)}
           [] key = "protected" -> {}
           [] key = "demand" -> {Feature("node", 18)}

\* Overpass: the landuse tags of the elements within 2 km
LanduseTags(p) ==
    IF p = "P1" THEN <<"farmland", "forest", "farmland">> ELSE <<"quarry">>

\* np.unique sorts the tags: their order
SortedTags == <<"farmland", "forest", "quarry">>

\* vals = [v for v in vals if v is not None]
SelectKnown(seq) == SelectSeq(seq, LAMBDA v : v # None)

RECURSIVE SumSeq(_)
SumSeq(seq) == IF seq = <<>> THEN Zero ELSE RAdd(Head(seq), SumSeq(Tail(seq)))

\* get_nasa_power without a failure: float(np.mean(vals)) if vals else None
nasa_power(p) ==
    LET vals == SelectKnown(NasaSeries(p))
    IN  IF vals # <<>> THEN RDiv(SumSeq(vals), <<Len(vals), 1>>) ELSE None

\* get_slope_deg without a failure: None unless all nine samples are there
slope_deg(p) ==
    LET elev == Elevations(p)
    IN  IF Len(elev) # 9 \/ \E i \in DOMAIN elev : elev[i] = None
        THEN None
        ELSE SlopeOfGrid(p)

\* the while loop of overpass_nearest_distance_km, no query failing
RECURSIVE ResolverRun(_, _, _)
ResolverRun(features, r, max) ==
    IF ~RLe(r, max) THEN None
    ELSE IF Elements(features, r) = {} THEN ResolverRun(features, Widen(r), max)
    ELSE DminLoop(Elements(features, r), None)

\* overpass_nearest_distance_km(lat, lon, key) with the default radii 20 and 60
nearest_distance_km(p, key) ==
    IF key \notin OSM_QUERIES THEN None
    ELSE ResolverRun(OsmFeatures(p, key), <<20, 1>>, <<60, 1>>)

Count(seq, t) == Cardinality({i \in DOMAIN seq : seq[i] = t})

\* get_landuse without a failure: vals[np.argmax(counts)], the first of the
\* most frequent tags in sorted order
landuse(p) ==
    LET tags == LanduseTags(p)
    IN  IF tags = <<>> THEN None
        ELSE LET i == CHOOSE i \in DOMAIN SortedTags :
                        /\ Count(tags, SortedTags[i]) > 0
                        /\ \A j \in DOMAIN SortedTags :
                            \/ Count(tags, SortedTags[j]) < Count(tags, SortedTags[i])
                            \/ (Count(tags, SortedTags[j]) = Count(tags, SortedTags[i])
                                /\ i <= j)
             IN  <<SortedTags[i]>>

\* what a fetcher returns when its source answers
Measure(c, p) ==
    CASE c = GHI -> nasa_power(p)
      [] c = SLOPE -> slope_deg(p)
      [] c = LANDUSE -> landuse(p)
      [] OTHER -> nearest_distance_km(p, OverpassKey[c])

(***************************************************************************)
(* Normalization, and the merge of the manual overrides                    *)
(*                                                                         *)
(* A text is a sequence of one-character strings.                          *)
(***************************************************************************)
Digits == <<"0", "1", "2", "3", "4", "5", "6", "7", "8", "9">>

IsDigit(ch) == \E i \in DOMAIN Digits : Digits[i] = ch

DigitValue(ch) == (CHOOSE i \in DOMAIN Digits : Digits[i] = ch) - 1

IsSpace(ch) == ch = " "

\* str.strip()
RECURSIVE Strip(_)
Strip(t) ==
    IF t = <<>> THEN t
    ELSE IF IsSpace(Head(t)) THEN Strip(Tail(t))
    ELSE IF IsSpace(t[Len(t)]) THEN Strip(SubSeq(t, 1, Len(t) - 1))
    ELSE t

\* the number a run of digits denotes
RECURSIVE DigitsValue(_)
DigitsValue(t) ==
    IF t = <<>> THEN 0
    ELSE 10 * DigitsValue(SubSeq(t, 1, Len(t) - 1)) + DigitValue(t[Len(t)])

AllDigits(t) == \A i \in DOMAIN t : IsDigit(t[i])

\* float(text) for a decimal literal: surrounding blanks, a sign, digits with
\* at most one point and at least one digit; None stands for ValueError
float_of(text) ==
    LET t == Strip(text)
        signed == t # <<>> /\ Head(t) \in {"+", "-"}
        body == IF signed THEN Tail(t) ELSE t
        dots == {i \in DOMAIN body : body[i] = "."}
        whole == IF dots = {} THEN body
                 ELSE SubSeq(body, 1, (CHOOSE i \in dots : TRUE) - 1)
        frac == IF dots = {} THEN <<>>
                ELSE SubSeq(body, (CHOOSE i \in dots : TRUE) + 1, Len(body))
        sign == IF signed /\ Head(t) = "-" THEN -1 ELSE 1
    IN  IF Cardinality(dots) > 1 \/ ~AllDigits(whole) \/ ~AllDigits(frac)
           \/ Len(whole) + Len(frac) = 0
        THEN None
        ELSE Rat(sign * (DigitsValue(whole) * Pow(10, Len(frac)) + DigitsValue(frac)),
                 Pow(10, Len(frac)))

\* np.clip(z, 0.0, 1.0)
Clip01(z) == IF RLt(z, Zero) THEN Zero ELSE IF RLt(One, z) THEN One ELSE z

\* a plausible slip: an unknown x scored as the neutral 0.5, as the land-use
\* tag is
norm_benefit_neutral(x, min_v, max_v) ==
    IF x = None THEN Rat(1, 2)
    ELSE IF max_v = min_v THEN Zero
    ELSE Clip01(RDiv(RSub(x, min_v), RSub(max_v, min_v)))

\* a plausible slip: the ratio is not clipped
norm_benefit_unclipped(x, min_v, max_v) ==
    IF x = None THEN Zero
    ELSE IF max_v = min_v THEN Zero
    ELSE RDiv(RSub(x, min_v), RSub(max_v, min_v))

\* norm_benefit(x, min_v, max_v)
norm_benefit(x, min_v, max_v) ==
    IF x = None THEN Zero
    ELSE IF max_v = min_v THEN Zero
    ELSE Clip01(RDiv(RSub(x, min_v), RSub(max_v, min_v)))

\* a plausible slip: the cost transform written as 1 - norm_benefit, which is 1
\* for an unknown x and for a degenerate range
norm_cost_complement(x, min_v, max_v) == RSub(One, norm_benefit(x, min_v, max_v))

\* a plausible slip: the cost transform without its inversion
norm_cost_uninverted(x, min_v, max_v) ==
    IF x = None THEN Zero
    ELSE IF max_v = min_v THEN Zero
    ELSE Clip01(RDiv(RSub(x, min_v), RSub(max_v, min_v)))

\* norm_cost(x, min_v, max_v)
norm_cost(x, min_v, max_v) ==
    IF x = None THEN Zero
    ELSE IF max_v = min_v THEN Zero
    ELSE RSub(One, Clip01(RDiv(RSub(x, min_v), RSub(max_v, min_v))))

\* norm_benefit of app2.py
app2_norm_benefit(x, min_v, max_v) ==
    IF x = None THEN Zero
    ELSE IF max_v = min_v THEN Zero
    ELSE Clip01(RDiv(RSub(x, min_v), RSub(max_v, min_v)))

\* norm_cost of app2.py
app2_norm_cost(x, min_v, max_v) ==
    IF x = None THEN Zero
    ELSE IF max_v = min_v THEN Zero
    ELSE RSub(One, Clip01(RDiv(RSub(x, min_v), RSub(max_v, min_v))))

\* a plausible slip: the top band of the inline chain starts at 0.75
recommendation_shifted(sc) ==
    IF RLe(Rat(75, 100), sc) THEN "Highly Suitable"
    ELSE IF RLe(Rat(6, 10), sc) THEN "Moderately Suitable"
    ELSE IF RLe(Rat(4, 10), sc) THEN "Marginally Suitable"
    ELSE "Not Suitable"

\* the if/elif chain of app.py 421-428
recommendation(sc) ==
    IF RLe(Rat(8, 10), sc) THEN "Highly Suitable"
    ELSE IF RLe(Rat(6, 10), sc) THEN "Moderately Suitable"
    ELSE IF RLe(Rat(4, 10), sc) THEN "Marginally Suitable"
    ELSE "Not Suitable"

\* a plausible slip: the bands compared with > instead of >=
score_to_text_open(sc) ==
    IF RLt(Rat(8, 10), sc) THEN "Highly Suitable"
    ELSE IF RLt(Rat(6, 10), sc) THEN "Moderately Suitable"
    ELSE IF RLt(Rat(4, 10), sc) THEN "Marginally Suitable"
    ELSE "Not Suitable"

\* score_to_text(score) of app2.py
score_to_text(sc) ==
    IF RLe(Rat(8, 10), sc) THEN "Highly Suitable"
    ELSE IF RLe(Rat(6, 10), sc) THEN "Moderately Suitable"
    ELSE IF RLe(Rat(4, 10), sc) THEN "Marginally Suitable"
    ELSE "Not Suitable"

DEFAULT_LANDUSE_SCORES ==
    [t \in {"farmland", "industrial", "residential", "forest", "meadow", "grass",
            "brownfield", "greenfield", "commercial", "retail"} |->
        CASE t = "farmland" -> Rat(8, 10)
          [] t \in {"industrial", "forest"} -> Rat(2, 10)
          [] t \in {"residential", "commercial", "retail"} -> Rat(3, 10)
          [] t \in {"meadow", "grass"} -> Rat(6, 10)
          [] t = "brownfield" -> Rat(7, 10)
          [] t = "greenfield" -> Rat(9, 10)]

\* the values the sidebar starts with
DefaultCalibration ==
    [ghi_min |-> <<3, 1>>, ghi_max |-> <<7, 1>>,
     slope_min |-> Zero, slope_max |-> <<15, 1>>,
     dist_cap |-> <<30, 1>>, lu_scores |-> DEFAULT_LANDUSE_SCORES]

\* raw_layers.get(key)
RawGet(raw, key) == IF key \in DOMAIN raw THEN raw[key] ELSE None

\* float(lu_scores.get(lu_tag, 0.5)) if lu_tag else 0.5
landuse_score(lu_tag, lu_scores) ==
    IF lu_tag # None
    THEN IF lu_tag[1] \in DOMAIN lu_scores THEN lu_scores[lu_tag[1]] ELSE Rat(1, 2)
    ELSE Rat(1, 2)

\* auto_norm: empty without raw layers, else nine entries (Land Cost has none)
auto_norm(raw, cal) ==
    IF raw = None THEN <<>>
    ELSE [sub \in AllSubs \ {"Land Cost"} |->
            CASE sub = "Solar Radiation" ->
                    norm_benefit(RawGet(raw, GHI), cal.ghi_min, cal.ghi_max)
              [] sub = "Slope" ->
                    norm_cost(RawGet(raw, SLOPE), cal.slope_min, cal.slope_max)
              [] sub = "Proximity to Grid" ->
                    norm_cost(RawGet(raw, POWER), Zero, cal.dist_cap)
              [] sub = "Land Use" ->
                    landuse_score(RawGet(raw, LANDUSE), cal.lu_scores)
              [] sub = "Distance from Protected Areas" ->
                    norm_cost(RawGet(raw, PROT), Zero, cal.dist_cap)
              [] sub = "Water Body Buffer" ->
                    norm_cost(RawGet(raw, WATER), Zero, cal.dist_cap)
              [] sub = "Distance from Roads" ->
                    norm_cost(RawGet(raw, ROAD), Zero, cal.dist_cap)
              [] sub = "Proximity to Demand Centers" ->
                    norm_cost(RawGet(raw, DEMAND), Zero, cal.dist_cap)
              [] sub = "Population Density" -> None]

\* auto_norm.get(sub)
AutoGet(auto, sub) == IF sub \in DOMAIN auto THEN auto[sub] ELSE None

\* a plausible slip: the auto-computed value wins over the manual text
merge_value_auto_first(mval, v) ==
    IF v # None THEN v
    ELSE IF mval # None /\ Strip(mval) # <<>> /\ float_of(mval) # None
    THEN float_of(mval) ELSE Zero

\* the body of the merge loop for one sub-criterion
merge_value(mval, v) ==
    IF mval # None /\ Strip(mval) # <<>>
    THEN IF float_of(mval) # None THEN float_of(mval) ELSE Zero
    ELSE IF v # None THEN v ELSE Zero

\* site_values after the merge loop
build_site_values(raw, man, cal) ==
    LET auto == auto_norm(raw, cal)
    IN  [sub \in AllSubs |-> merge_value(man[sub], AutoGet(auto, sub))]

RECURSIVE SumOver(_, _)
SumOver(f, S) ==
    IF S = {} THEN Zero
    ELSE LET x == CHOOSE y \in S : TRUE IN RAdd(f[x], SumOver(f, S \ {x}))

\* the sidebar: the three main-weight inputs divided by their total (by 1.0
\* when the total is 0)
sidebar_main(w) ==
    LET total_main == SumOver(w, Criteria)
        t == IF total_main = Zero THEN One ELSE total_main
    IN  [crit \in Criteria |-> RDiv(w[crit], t)]

\* the sidebar: the local-weight inputs of each criterion divided by their sum
\* (by 1.0 unless the sum is positive)
sidebar_local(l) ==
    [crit \in Criteria |->
        LET total == SumOver(l[crit], SubsOf(crit))
            t == IF RLt(Zero, total) THEN total ELSE One
        IN  [sub \in SubsOf(crit) |-> RDiv(l[crit][sub], t)]]

\* the global weights of the page's AHPModel while the weight inputs hold
\* their defaults
page_global ==
    compute_global(sidebar_main(default_main_weights),
                   sidebar_local(default_sub_weights_local))

\* score = ahp.score(site_values)
page_score(sv) == score(page_global, sv)

\* the rest of a run of the script from the merge on: the site values, the
\* score and the recommendation
PageRun(raw, man, cal, sv, sc, r) ==
    /\ sv = build_site_values(raw, man, cal)
    /\ sc = page_score(sv)
    /\ r = recommendation(sc)

(***************************************************************************)
(* Inputs of the page                                                      *)
(***************************************************************************)
\* the number of manual inputs whose text differs from that of the others
MaxOverrides == 1

BlankText == <<>>

ManualTexts == {BlankText, <<" ">>, <<"0", ".", "7">>, <<"x">>, <<" ", "2", " ">>}

\* the manual inputs that are edited: one fed through norm_benefit, one through
\* norm_cost, the land-use one, and the two without a raw source
EditedSubs ==
    {"Solar Radiation", "Slope", "Land Use", "Land Cost", "Population Density"}

\* the texts the ten manual inputs may all hold when the model starts
UniformTexts == {BlankText, <<"0", ".", "7">>}

\* the land-use table after the custom entry "quarry:1.5"
CustomLanduseScores ==
    [t \in DOMAIN DEFAULT_LANDUSE_SCORES \cup {"quarry"} |->
        IF t = "quarry" THEN Rat(3, 2) ELSE DEFAULT_LANDUSE_SCORES[t]]

Calibrations ==
    {DefaultCalibration,
     [DefaultCalibration EXCEPT !.ghi_min = <<4, 1>>, !.ghi_max = <<4, 1>>,
                                !.dist_cap = <<10, 1>>,
                                !.lu_scores = CustomLanduseScores]}

\* a plausible slip: one try around the whole block, so that any failure
\* leaves every field of the fetch unknown
CallResultAllOrNothing(c, p, F, gc) == IF F # {} THEN None ELSE Measure(c, p)

\* a fetcher body run for point p while the calls F fail: the except branch
\* returns None; a response already memoized by cached_get needs no request
CallResult(c, p, F, gc) ==
    IF c \in F /\ ~(c \in ViaCachedGet /\ <<c, p>> \in gc)
    THEN None
    ELSE Measure(c, p)

\* a plausible slip: the fetchers are called without their memo
FetcherValueNoMemo(c, p, F, fc, gc) == CallResult(c, p, F, gc)

\* a call through st.cache_data: the memoized value if there is one
FetcherValue(c, p, F, fc, gc) ==
    IF <<c, p>> \in DOMAIN fc THEN fc[<<c, p>>] ELSE CallResult(c, p, F, gc)

\* raw = {...}: the record the block builds for point p
RawRecord(p, F, fc, gc) ==
    [k \in Calls \cup {"Latitude", "Longitude"} |->
        IF k \in Calls THEN FetcherValue(k, p, F, fc, gc) ELSE <<p>>]

\* raw layers the session may hold: none, or those of a first fetch at either
\* point in which no call, every call, or two of the calls failed
RawLayerInputs ==
    {None} \cup {RawRecord(p, F, <<>>, {}) :
                    p \in Points, F \in {{}, Calls, {GHI, LANDUSE}}}

FetchIdle ==
    /\ fn_cache = <<>>
    /\ get_cache = {}
    /\ raw_layers = None
    /\ fetch_called = {}
    /\ fetch_failed = {}
    /\ src_down = {}

\* the calls of a click that reach their source: those st.cache_data holds no
\* value for
Misses == {c \in Calls : <<c, point>> \notin DOMAIN fn_cache}

\* if do_fetch: the eight calls while the sources in down are unreachable, the
\* raw record, st.session_state["raw_layers"], and the rest of the script
Fetch(down) ==
    LET F == down \cap Misses
    IN  /\ raw_layers' = RawRecord(point, F, fn_cache, get_cache)
        /\ fn_cache' =
              [k \in DOMAIN fn_cache \cup {<<c, point>> : c \in Misses} |->
                  IF k \in DOMAIN fn_cache THEN fn_cache[k]
                  ELSE CallResult(k[1], point, F, get_cache)]
        /\ get_cache' =
              get_cache \cup {<<c, point>> : c \in (Misses \cap ViaCachedGet) \ F}
        /\ fetch_called' = Misses
        /\ fetch_failed' = F
        /\ src_down' = down
        /\ PageRun(raw_layers', manual, calib, site_values', final_score', rec')
        /\ UNCHANGED <<notPage, point, calib, manual>>

\* a click on "Fetch Live Layers" while any of the calls it makes may fail
FetchLiveLayers == \E F \in SUBSET Misses : Fetch(F)

\* the sets of sources that are unreachable during a click of a session
DownSets == {{}, {GHI}, {GHI, ROAD, LANDUSE}, Calls}

\* a click on "Fetch Live Layers" in a session
SessionFetch == \E down \in DownSets : Fetch(down)

\* the latitude and longitude inputs are changed; the script runs again
\* without a fetch, on the raw layers the session holds
EditPoint ==
    /\ \E p \in Points \ {point} : point' = p
    /\ PageRun(raw_layers, manual, calib, site_values', final_score', rec')
    /\ UNCHANGED <<notPage, fn_cache, get_cache, raw_layers, fetch_called,
                   fetch_failed, src_down, calib, manual>>

NextSession == SessionFetch \/ EditPoint

\* the page before any input: default calibration, blank manual inputs
PageIdle ==
    /\ calib = DefaultCalibration
    /\ manual = [sub \in AllSubs |-> BlankText]
    /\ PageRun(raw_layers, manual, calib, site_values, final_score, rec)

\* the page as an earlier session left it: default calibration, the same text
\* in all ten manual inputs
PageLoaded ==
    /\ calib = DefaultCalibration
    /\ manual \in {[sub \in AllSubs |-> t] : t \in UniformTexts}
    /\ PageRun(raw_layers, manual, calib, site_values, final_score, rec)

\* a text is typed into one manual input; the script runs again (no fetch)
EditManual ==
    \E sub \in EditedSubs, text \in ManualTexts :
        /\ manual' = [manual EXCEPT ![sub] = text]
        /\ \E t \in UniformTexts :
                Cardinality({x \in AllSubs : manual'[x] # t}) <= MaxOverrides
        /\ PageRun(raw_layers, manual', calib, site_values', final_score', rec')
        /\ UNCHANGED <<notPage, fetchVars, calib>>

\* the normalization caps are changed in the sidebar; the script runs again
EditCalibration ==
    \E cal \in Calibrations :
        /\ calib' = cal
        /\ PageRun(raw_layers, manual, calib', site_values', final_score', rec')
        /\ UNCHANGED <<notPage, fetchVars, manual>>

NextFetch == FetchLiveLayers

(***************************************************************************)
(* Calls of the normalization and band functions                           *)
(***************************************************************************)
XInputs ==
    {None} \cup {<<n, 1>> : n \in {-1, 0, 2, 3, 5, 7, 9, 10, 15, 20}}

MinInputs == {<<n, 1>> : n \in {0, 3, 7}}

MaxInputs == {<<n, 1>> : n \in {3, 7, 15}}

ScoreInputs ==
    {Rat(n, 100) : n \in {-10, 0, 39, 40, 41, 59, 60, 70, 79, 80, 81, 100, 110}}

CallIdle ==
    /\ ret_benefit = None
    /\ ret_cost = None
    /\ ret_text = None

\* no concurrent calls under way
ConcIdle ==
    /\ set_pc = "idle"
    /\ sc_pc = "idle"
    /\ sc_i = 0
    /\ sc_total = Zero
    /\ sc_max = Zero

\* app2.py's AHPModel after __init__, and no call made on both files
TwinInit ==
    /\ app2_main_weights = default_main_weights
    /\ app2_sub_weights_local = default_sub_weights_local
    /\ app2_sub_weights_global =
            app2_compute_global(default_main_weights, default_sub_weights_local)
    /\ twin_call = "none"
    /\ twin_ret = None
    /\ twin_ret2 = None

CallInit ==
    /\ arg_x = None /\ arg_min_v = Zero /\ arg_max_v = One /\ arg_score = Zero
    /\ CallIdle

CallNormBenefit ==
    /\ ret_benefit = None
    /\ ret_benefit' = norm_benefit(arg_x, arg_min_v, arg_max_v)
    /\ UNCHANGED <<notCall, arg_x, arg_min_v, arg_max_v, ret_cost, arg_score, ret_text>>

CallNormCost ==
    /\ ret_cost = None
    /\ ret_cost' = norm_cost(arg_x, arg_min_v, arg_max_v)
    /\ UNCHANGED <<notCall, arg_x, arg_min_v, arg_max_v, ret_benefit, arg_score, ret_text>>

CallScoreToText ==
    /\ ret_text = None
    /\ ret_text' = <<score_to_text(arg_score)>>
    /\ UNCHANGED <<notCall, arg_x, arg_min_v, arg_max_v, ret_benefit, ret_cost, arg_score>>

NextCall == CallNormBenefit \/ CallNormCost \/ CallScoreToText

NextPage == EditManual \/ EditCalibration

(***************************************************************************)
(* One setter call and one score call on the same AHPModel, from two       *)
(* threads.  A step is one statement, or one pass of a loop body: each     *)
(* pass of the loops of score reads self.sub_weights_global anew.          *)
(***************************************************************************)
\* the site values handed to the concurrent score call
ConcSiteInputs ==
    {[s \in AllSubs |-> One], [s \in AllSubs |-> Rat(SubIndex(s), 10)]}

\* set_main_weight, first statement: self.main_weights[crit] = value
ConcSetMainStore ==
    /\ set_pc = "idle"
    /\ \E crit \in Criteria, value \in WeightVals :
            main_weights' = [main_weights EXCEPT ![crit] = value]
    /\ set_pc' = "stored"
    /\ UNCHANGED <<sub_weights_local, sub_weights_global, nsets, score_in, score_out,
                   sc_pc, sc_i, sc_total, sc_max, notConc>>

\* set_local_weight, first statement: self.sub_weights_local[crit][sub] = value
ConcSetLocalStore ==
    /\ set_pc = "idle"
    /\ \E cs \in LocalSetInputs, value \in WeightVals :
            sub_weights_local' = [sub_weights_local EXCEPT ![cs[1]][cs[2]] = value]
    /\ set_pc' = "stored"
    /\ UNCHANGED <<main_weights, sub_weights_global, nsets, score_in, score_out,
                   sc_pc, sc_i, sc_total, sc_max, notConc>>

\* second statement of either setter: self.sub_weights_global =
\* self._compute_global(), the new table built aside and bound in one store
ConcRebuild ==
    /\ set_pc = "stored"
    /\ sub_weights_global' = compute_global(main_weights, sub_weights_local)
    /\ set_pc' = "done"
    /\ UNCHANGED <<main_weights, sub_weights_local, nsets, score_in, score_out,
                   sc_pc, sc_i, sc_total, sc_max, notConc>>

\* score is entered: total = 0.0
ConcScoreEnter ==
    /\ sc_pc = "idle"
    /\ \E sv \in ConcSiteInputs : score_in' = sv
    /\ sc_total' = Zero
    /\ sc_i' = 1
    /\ sc_pc' = "total"
    /\ UNCHANGED <<main_weights, sub_weights_local, sub_weights_global, nsets,
                   score_out, set_pc, sc_max, notConc>>

\* one pass of the first loop: total += v * self.sub_weights_global[crit][sub];
\* after the last pass, max_sum = 0.0
ConcScoreTotalStep ==
    /\ sc_pc = "total"
    /\ LET sub == SubOrder[sc_i]
       IN  sc_total' = RAdd(sc_total,
                            RMul(SiteGet(score_in, sub), global_weight(CritOf(sub), sub)))
    /\ IF sc_i < Len(SubOrder)
       THEN sc_i' = sc_i + 1 /\ UNCHANGED <<sc_pc, sc_max>>
       ELSE sc_i' = 1 /\ sc_pc' = "max" /\ sc_max' = Zero
    /\ UNCHANGED <<main_weights, sub_weights_local, sub_weights_global, nsets,
                   score_in, score_out, set_pc, notConc>>

\* one pass of the second loop: max_sum += 1.0 * self.sub_weights_global[crit][sub];
\* after the last pass, return total / max_sum if max_sum else 0.0
ConcScoreMaxStep ==
    /\ sc_pc = "max"
    /\ LET sub == SubOrder[sc_i]
       IN  sc_max' = RAdd(sc_max, RMul(One, global_weight(CritOf(sub), sub)))
    /\ IF sc_i < Len(SubOrder)
       THEN sc_i' = sc_i + 1 /\ UNCHANGED <<sc_pc, score_out>>
       ELSE /\ sc_i' = 0
            /\ sc_pc' = "done"
            /\ score_out' = IF sc_max' # Zero THEN RDiv(sc_total, sc_max') ELSE Zero
    /\ UNCHANGED <<main_weights, sub_weights_local, sub_weights_global, nsets,
                   score_in, set_pc, sc_total, notConc>>

NextConc ==
    \/ ConcSetMainStore
    \/ ConcSetLocalStore
    \/ ConcRebuild
    \/ ConcScoreEnter
    \/ ConcScoreTotalStep
    \/ ConcScoreMaxStep

(***************************************************************************)
(* The two files driven side by side: every call is made on app.py and on  *)
(* app2.py with the same arguments.                                        *)
(***************************************************************************)
\* set_main_weight(crit, value) on both AHPModel objects
TwinSetMain ==
    \E crit \in Criteria, value \in WeightVals :
        /\ set_main_weight(crit, value)
        /\ app2_main_weights' = [app2_main_weights EXCEPT ![crit] = value]
        /\ app2_sub_weights_global' =
                app2_compute_global(app2_main_weights', app2_sub_weights_local)
        /\ twin_call' = "set_main_weight"
        /\ twin_ret' = None
        /\ twin_ret2' = None
        /\ UNCHANGED app2_sub_weights_local

\* set_local_weight(crit, sub, value) on both AHPModel objects
TwinSetLocal ==
    \E cs \in LocalSetInputs, value \in WeightVals :
        /\ set_local_weight(cs[1], cs[2], value)
        /\ app2_sub_weights_local' =
                [app2_sub_weights_local EXCEPT ![cs[1]][cs[2]] = value]
        /\ app2_sub_weights_global' =
                app2_compute_global(app2_main_weights, app2_sub_weights_local')
        /\ twin_call' = "set_local_weight"
        /\ twin_ret' = None
        /\ twin_ret2' = None
        /\ UNCHANGED app2_main_weights

\* the site value maps both objects score: complete, one value missing, one
\* value only, and empty
TwinSiteInputs ==
    {Restrict(p, D) : p \in ValueProfiles,
                      D \in {AllSubs, AllSubs \ {"Land Use"}, {"Slope"}, {}}}

\* score(site_values) on both AHPModel objects
TwinScore ==
    \E sv \in TwinSiteInputs :
        /\ ScoreCall(sv)
        /\ twin_call' = "score"
        /\ twin_ret' = score_out'
        /\ twin_ret2' = app2_score(app2_sub_weights_global, sv)
        /\ UNCHANGED <<app2_main_weights, app2_sub_weights_local, app2_sub_weights_global>>

\* the arguments the functions of both files are called on: a missing value,
\* values below, inside and above the range, and an empty and an inverted range
TwinNormInputs ==
    {<<x, r[1], r[2]>> : x \in {None, <<-1, 1>>, <<5, 1>>, <<7, 1>>, <<20, 1>>},
                         r \in {<<<<0, 1>>, <<15, 1>>>>, <<<<3, 1>>, <<15, 1>>>>,
                                <<<<7, 1>>, <<7, 1>>>>, <<<<7, 1>>, <<3, 1>>>>}}

\* norm_benefit(x, min_v, max_v) of both files; the weight tables stay
TwinNormBenefit ==
    \E a \in TwinNormInputs :
        /\ twin_call' = "norm_benefit"
        /\ twin_ret' = norm_benefit(a[1], a[2], a[3])
        /\ twin_ret2' = app2_norm_benefit(a[1], a[2], a[3])
        /\ score_in' = None
        /\ score_out' = None
        /\ UNCHANGED <<main_weights, sub_weights_local, sub_weights_global, nsets, notAhp,
                       app2_main_weights, app2_sub_weights_local, app2_sub_weights_global>>

\* norm_cost(x, min_v, max_v) of both files; the weight tables stay
TwinNormCost ==
    \E a \in TwinNormInputs :
        /\ twin_call' = "norm_cost"
        /\ twin_ret' = norm_cost(a[1], a[2], a[3])
        /\ twin_ret2' = app2_norm_cost(a[1], a[2], a[3])
        /\ score_in' = None
        /\ score_out' = None
        /\ UNCHANGED <<main_weights, sub_weights_local, sub_weights_global, nsets, notAhp,
                       app2_main_weights, app2_sub_weights_local, app2_sub_weights_global>>

\* the inline chain of app.py and score_to_text of app2.py on the same score
TwinLabel ==
    \E sc \in ScoreInputs :
        /\ twin_call' = "label"
        /\ twin_ret' = <<recommendation(sc)>>
        /\ twin_ret2' = <<score_to_text(sc)>>
        /\ score_in' = None
        /\ score_out' = None
        /\ UNCHANGED <<main_weights, sub_weights_local, sub_weights_global, nsets, notAhp,
                       app2_main_weights, app2_sub_weights_local, app2_sub_weights_global>>

NextTwin ==
    \/ TwinSetMain
    \/ TwinSetLocal
    \/ TwinScore
    \/ TwinNormBenefit
    \/ TwinNormCost
    \/ TwinLabel

(***************************************************************************)
(* Specifications                                                          *)
(***************************************************************************)
NextAHP == SetMain \/ SetLocal \/ Score

InitAHP ==
    /\ AHPInit /\ ResolverIdle /\ res_features = {} /\ FetchIdle /\ point = "P1" /\ PageIdle
    /\ CallInit /\ ConcIdle /\ TwinInit

SpecAHP == InitAHP /\ [][NextAHP]_vars

InitResolver ==
    /\ AHPInit /\ ResolverIdle /\ res_features \in FeatureWorlds
    /\ FetchIdle /\ point = "P1" /\ PageIdle /\ CallInit /\ ConcIdle /\ TwinInit

SpecResolver == InitResolver /\ [][NextResolver]_vars

InitFetch ==
    /\ AHPInit /\ ResolverIdle /\ res_features = {}
    /\ FetchIdle /\ point \in Points /\ PageIdle /\ CallInit /\ ConcIdle /\ TwinInit

SpecFetch == InitFetch /\ [][NextFetch]_vars

\* a session: clicks on the fetch button and edits of the point
SpecSession == InitFetch /\ [][NextSession]_vars

\* the session holds raw layers of an earlier fetch, or none
InitPage ==
    /\ AHPInit /\ ResolverIdle /\ res_features = {}
    /\ fn_cache = <<>> /\ get_cache = {} /\ fetch_called = {} /\ fetch_failed = {}
    /\ src_down = {}
    /\ raw_layers \in RawLayerInputs
    /\ point = IF raw_layers = None THEN "P1" ELSE raw_layers["Latitude"][1]
    /\ PageLoaded /\ CallInit /\ ConcIdle /\ TwinInit

SpecPage == InitPage /\ [][NextPage]_vars

SpecConc == InitAHP /\ [][NextConc]_vars

SpecTwin == InitAHP /\ [][NextTwin]_vars

\* the functions are called on arguments drawn from the input sets
InitCall ==
    /\ AHPInit /\ ResolverIdle /\ res_features = {}
    /\ FetchIdle /\ point = "P1" /\ PageIdle
    /\ arg_x \in XInputs /\ arg_min_v \in MinInputs /\ arg_max_v \in MaxInputs
    /\ arg_score \in ScoreInputs
    /\ CallIdle /\ ConcIdle /\ TwinInit

SpecCall == InitCall /\ [][NextCall]_vars

(***************************************************************************)
(* Properties of the weight model                                          *)
(***************************************************************************)
\* the weighted sum of the values sv over the set S of sub-criteria, a
\* sub-criterion absent from sv counting as 0
RECURSIVE WeightedSum(_, _)
WeightedSum(S, sv) ==
    IF S = {} THEN Zero
    ELSE LET s == CHOOSE x \in S : TRUE
             v == IF s \in DOMAIN sv THEN sv[s] ELSE Zero
         IN  RAdd(RMul(v, global_weight(CritOf(s), s)),
                  WeightedSum(S \ {s}, sv))

RECURSIVE WeightSum(_)
WeightSum(S) ==
    IF S = {} THEN Zero
    ELSE LET s == CHOOSE x \in S : TRUE
         IN  RAdd(global_weight(CritOf(s), s), WeightSum(S \ {s}))

\* C1: score(siteValues) is the sum over the ten sub-criteria of
\* value * globalWeight divided by the sum of the ten global weights, an absent
\* sub-criterion counting as value 0; it is 0 when the global weights sum to 0.
C1_ScoreIsWeightedAverage ==
    score_out # None =>
        IF WeightSum(AllSubs) = Zero
        THEN score_out = Zero
        ELSE RMul(score_out, WeightSum(AllSubs)) = WeightedSum(AllSubs, score_in)

\* a score call on a map that lacks some sub-criteria, under edited weights
C1_Witness ==
    /\ score_out # None
    /\ score_out # Zero
    /\ nsets > 0
    /\ DOMAIN score_in # AllSubs
    /\ DOMAIN score_in # {}

\* C2: initially and after any sequence of setter calls, every global weight
\* is the product of the current main weight and the current local weight.
C2_GlobalIsProduct ==
    \A crit \in Criteria : \A sub \in SubsOf(crit) :
        LET m == main_weights[crit]
            l == sub_weights_local[crit][sub]
            g == global_weight(crit, sub)
        IN  IF l = Zero THEN g = Zero ELSE RDiv(g, l) = m

\* a main weight and a local weight of the same group have both been changed
C2_Witness ==
    /\ main_weights["Technical"] = <<1, 2>>
    /\ sub_weights_local["Technical"]["Slope"] = <<1, 2>>
    /\ global_weight("Technical", "Slope") = <<1, 4>>
    /\ global_weight("Technical", "Land Cost") = <<1, 40>>

(***************************************************************************)
(* Properties of the resolver                                              *)
(***************************************************************************)
\* startRadiusKm * 1.7^k
RadiusAt(k) == Rat(res_start[1] * Pow(17, k), res_start[2] * Pow(10, k))

NoQueries == Len(res_queries)

AllEmpty == \A i \in DOMAIN res_queries : res_queries[i].outcome = "empty"

\* the great-circle distance between the site and a feature
TrueDistance(f) == RMul(f.dlat, <<MetresPerDegree, 1000>>)

\* C3: for a known category, while every query returns an empty result the
\* k-th query (k = 0, 1, ...) is at radius start * 1.7^k and no queried radius
\* exceeds max; the call then returns Unknown, and the number of its queries
\* is the number of growth steps that take start beyond max (for 20 and 60:
\* three queries, at 20, 34 and 57.8).
C3_WideningSchedule ==
    (res_key \in OSM_QUERIES /\ AllEmpty) =>
        /\ \A i \in DOMAIN res_queries :
            /\ res_queries[i].rad = RadiusAt(i - 1)
            /\ RLe(res_queries[i].rad, res_max)
        /\ res_pc = "done" =>
            /\ res_ret = None
            /\ RLt(res_max, RadiusAt(NoQueries))
            /\ (res_start = <<20, 1>> /\ res_max = <<60, 1>>) =>
                   [i \in DOMAIN res_queries |-> res_queries[i].rad]
                       = <<(<<20, 1>>), (<<34, 1>>), (<<289, 5>>)>>

\* the default call, exhausted after three empty queries although the source
\* holds a feature farther out
C3_Witness ==
    /\ res_pc = "done"
    /\ res_key \in OSM_QUERIES
    /\ AllEmpty
    /\ NoQueries = 3
    /\ res_start = <<20, 1>>
    /\ res_max = <<60, 1>>
    /\ res_features # {}

\* C4: when the source holds one feature, with coordinates, at true distance
\* D < max, and answers every query with the features inside the box, a call
\* with 0 < start <= max returns D.
C4_FindsFeatureWithinMax ==
    (/\ res_pc = "done"
     /\ res_key \in OSM_QUERIES
     /\ \A i \in DOMAIN res_queries : res_queries[i].outcome # "fail"
     /\ RLt(Zero, res_start) /\ RLe(res_start, res_max)
     /\ Cardinality(res_features) = 1
     /\ \A f \in res_features :
            HasCoordinates(f) /\ RLt(TrueDistance(f), res_max))
    => \A f \in res_features : res_ret = TrueDistance(f)

\* C5: a failing query is the last query of the call, and the call has then
\* returned Unknown; every query that is followed by another one returned an
\* empty result.
C5_FailureReturnsUnknown ==
    \A i \in DOMAIN res_queries :
        /\ res_queries[i].outcome = "fail" =>
            (i = NoQueries /\ res_pc = "done" /\ res_ret = None)
        /\ i < NoQueries => res_queries[i].outcome = "empty"

\* the query at a widened radius fails
C5_Witness ==
    /\ NoQueries = 2
    /\ res_queries[1].outcome = "empty"
    /\ res_queries[2].outcome = "fail"
    /\ res_queries[2].rad = <<34, 1>>
    /\ res_pc = "done"

Located(els) == {el \in els : HasCoordinates(el)}

\* C6 as stated: a non-empty result ends the call with a distance, never with
\* Unknown.
C6_HitReturnsDistance ==
    \A i \in DOMAIN res_queries :
        res_queries[i].outcome = "hit" => (res_pc = "done" /\ res_ret # None)

\* C6 as amended: a non-empty result is the last query of the call, and the
\* call returns the least distance to the returned elements that carry
\* coordinates (their own, or those of their center), Unknown when none does.
C6_HitReturnsMinimum ==
    \A i \in DOMAIN res_queries :
        res_queries[i].outcome = "hit" =>
            /\ i = NoQueries
            /\ res_pc = "done"
            /\ res_elements # {}
            /\ IF Located(res_elements) = {}
               THEN res_ret = None
               ELSE /\ \E el \in Located(res_elements) : res_ret = TrueDistance(el)
                    /\ \A el \in Located(res_elements) : RLe(res_ret, TrueDistance(el))

\* a response of a node and a way at different distances
C6_Witness ==
    /\ res_pc = "done"
    /\ NoQueries >= 1
    /\ res_queries[NoQueries].outcome = "hit"
    /\ \E a, b \in res_elements :
        /\ a.kind = "node" /\ b.kind = "way"
        /\ RLt(TrueDistance(b), TrueDistance(a))
        /\ res_ret = TrueDistance(b)

(***************************************************************************)
(* Properties of the fetch                                                 *)
(***************************************************************************)
\* the raw values of the two points when every source answers
Answered(p) ==
    IF p = "P1"
    THEN [c \in Calls |->
            CASE c = GHI -> <<5, 1>>
              [] c = SLOPE -> <<249, 25>>
              [] c = ROAD -> <<15, 1>>
              [] c = POWER -> <<30, 1>>
              [] c = WATER -> <<6, 1>>
              [] c = LANDUSE -> <<"farmland">>
              [] OTHER -> None]
    ELSE [c \in Calls |->
            CASE c = WATER -> <<12, 1>>
              [] c = DEMAND -> <<18, 1>>
              [] c = LANDUSE -> <<"quarry">>
              [] OTHER -> None]

\* C7: after a fetch in which the source calls F failed, every field of F is
\* Unknown and every other field whose call was made holds the value it has
\* when no call fails (so a field outside F is Unknown only if its source has
\* nothing for the point).  A field served from the memo makes no source call.
C7_FailuresAreIsolated ==
    raw_layers # None =>
        \A c \in fetch_called :
            raw_layers[c] = IF c \in fetch_failed THEN None ELSE Answered(point)[c]

\* a first fetch at P1 in which the irradiance and the road calls fail
C7_Witness ==
    /\ raw_layers # None
    /\ point = "P1"
    /\ fetch_called = Calls
    /\ fetch_failed = {GHI, ROAD}
    /\ raw_layers[GHI] = None
    /\ raw_layers[ROAD] = None
    /\ raw_layers[SLOPE] # None
    /\ raw_layers[POWER] # None
    /\ raw_layers[LANDUSE] # None

(***************************************************************************)
(* Properties of the merge                                                 *)
(***************************************************************************)
\* the manual text of a sub-criterion is blank
NoOverride(sub) == Strip(manual[sub]) = <<>>

\* the site value a sub-criterion has without any manual text: the
\* auto-computed value if there is one, else 0
AutoValue(sub) ==
    LET v == AutoGet(auto_norm(raw_layers, calib), sub)
    IN  IF v # None THEN v ELSE Zero

\* C8: every sub-criterion has a site value: the manual override if it is
\* non-blank and parses as a number, otherwise the normalized value of its raw
\* field, otherwise 0.
C8_MergePrecedence ==
    /\ DOMAIN site_values = AllSubs
    /\ \A sub \in AllSubs :
        site_values[sub] =
            IF ~NoOverride(sub) /\ float_of(manual[sub]) # None
            THEN float_of(manual[sub])
            ELSE AutoValue(sub)

\* C9: a non-blank manual text that does not parse as a number leaves the
\* sub-criterion with the value it has when the text is blank.
C9_UnparsableFallsBackToAuto ==
    \A sub \in AllSubs :
        (~NoOverride(sub) /\ float_of(manual[sub]) = None) =>
            site_values[sub] = AutoValue(sub)

\* the sub-criterion each raw field feeds
FedBy ==
    [c \in Calls |->
        CASE c = GHI -> "Solar Radiation"
          [] c = SLOPE -> "Slope"
          [] c = ROAD -> "Distance from Roads"
          [] c = POWER -> "Proximity to Grid"
          [] c = WATER -> "Water Body Buffer"
          [] c = PROT -> "Distance from Protected Areas"
          [] c = DEMAND -> "Proximity to Demand Centers"
          [] c = LANDUSE -> "Land Use"]

\* C10 as stated: every Unknown field of the raw layers, the land-use tag
\* included, gives its sub-criterion the site value 0 when there is no manual
\* override.
C10_UnknownGivesZero ==
    raw_layers # None =>
        \A c \in Calls :
            (raw_layers[c] = None /\ NoOverride(FedBy[c])) =>
                site_values[FedBy[c]] = Zero

\* C10 as amended: an Unknown irradiance, slope or distance gives its
\* sub-criterion the site value 0, and an Unknown land-use tag gives Land Use
\* the neutral 0.5, when there is no manual override.
C10_UnknownGivesZeroOrNeutral ==
    raw_layers # None =>
        \A c \in Calls :
            (raw_layers[c] = None /\ NoOverride(FedBy[c])) =>
                site_values[FedBy[c]] = IF c = LANDUSE THEN <<1, 2>> ELSE Zero

\* raw layers with an Unknown irradiance, an Unknown distance and an Unknown
\* land-use tag beside known fields, and no manual text for them
C10_Witness ==
    /\ raw_layers # None
    /\ calib # DefaultCalibration
    /\ raw_layers[GHI] = None /\ NoOverride("Solar Radiation")
    /\ raw_layers[PROT] = None /\ NoOverride("Distance from Protected Areas")
    /\ raw_layers[LANDUSE] = None /\ NoOverride("Land Use")
    /\ raw_layers[SLOPE] # None
    /\ site_values["Solar Radiation"] = Zero
    /\ site_values["Distance from Protected Areas"] = Zero
    /\ site_values["Land Use"] = <<1, 2>>
    /\ site_values["Slope"] # Zero

(***************************************************************************)
(* Properties of the normalization and band functions                      *)
(***************************************************************************)
\* (x - lo)/(hi - lo) for a known x and lo # hi
Ratio == RDiv(RSub(arg_x, arg_min_v), RSub(arg_max_v, arg_min_v))

InUnit(r) == RLe(Zero, r) /\ RLe(r, One)

\* C11: norm_benefit returns 0 for an Unknown x, 0 for lo = hi, and otherwise
\* (x - lo)/(hi - lo) clamped to [0,1]: with lo < hi, 0 below the range and 1
\* above it; 0.5 for x = 5, lo = 3, hi = 7.  The result is in [0,1] for every
\* input, lo > hi included.
C11_NormBenefit ==
    ret_benefit # None =>
        /\ InUnit(ret_benefit)
        /\ arg_x = None => ret_benefit = Zero
        /\ arg_min_v = arg_max_v => ret_benefit = Zero
        /\ (arg_x # None /\ arg_min_v # arg_max_v) =>
            /\ InUnit(Ratio) => ret_benefit = Ratio
            /\ RLt(Ratio, Zero) => ret_benefit = Zero
            /\ RLt(One, Ratio) => ret_benefit = One
        /\ (arg_x # None /\ RLt(arg_min_v, arg_max_v)) =>
            /\ RLe(arg_x, arg_min_v) => ret_benefit = Zero
            /\ RLe(arg_max_v, arg_x) => ret_benefit = One
        /\ (arg_x = <<5, 1>> /\ arg_min_v = <<3, 1>> /\ arg_max_v = <<7, 1>>) =>
            ret_benefit = <<1, 2>>

\* norm_benefit has returned for an x above a reversed range (lo > hi)
C11_Witness ==
    /\ arg_x = <<9, 1>> /\ arg_min_v = <<7, 1>> /\ arg_max_v = <<3, 1>>
    /\ ret_benefit = Zero

\* C12 as stated: for all x (an Unknown x included), lo and hi with lo # hi,
\* norm_cost(x, lo, hi) = 1 - norm_benefit(x, lo, hi).
C12_CostIsComplement ==
    (ret_benefit # None /\ ret_cost # None /\ arg_min_v # arg_max_v) =>
        ret_cost = RSub(One, ret_benefit)

\* C12 as amended: for every known x, and lo and hi with lo # hi,
\* norm_cost(x, lo, hi) = 1 - norm_benefit(x, lo, hi); 1 - 10/15 for x = 10,
\* lo = 0, hi = 15.
C12_CostIsComplementForKnown ==
    (ret_benefit # None /\ ret_cost # None /\ arg_min_v # arg_max_v
        /\ arg_x # None) =>
        /\ ret_cost = RSub(One, ret_benefit)
        /\ (arg_x = <<10, 1>> /\ arg_min_v = Zero /\ arg_max_v = <<15, 1>>) =>
            ret_cost = <<1, 3>>

\* both transforms have returned for slope 10 on the range 0..15
C12_Witness ==
    /\ arg_x = <<10, 1>> /\ arg_min_v = Zero /\ arg_max_v = <<15, 1>>
    /\ ret_benefit = <<2, 3>>
    /\ ret_cost = <<1, 3>>

\* C13: both transforms return 0 for an Unknown x whatever lo and hi are, and
\* 0 for every x when lo = hi; either call returns a number.
C13_SoftFailuresGiveZero ==
    /\ (ret_benefit # None /\ (arg_x = None \/ arg_min_v = arg_max_v)) =>
            ret_benefit = Zero
    /\ (ret_cost # None /\ (arg_x = None \/ arg_min_v = arg_max_v)) =>
            ret_cost = Zero

\* both transforms have returned for a known x on the degenerate range 7..7
C13_Witness ==
    /\ arg_x = <<9, 1>> /\ arg_min_v = <<7, 1>> /\ arg_max_v = <<7, 1>>
    /\ ret_benefit = Zero
    /\ ret_cost = Zero

\* the order of the labels
Rank(label) ==
    CASE label = "Not Suitable" -> 0
      [] label = "Marginally Suitable" -> 1
      [] label = "Moderately Suitable" -> 2
      [] label = "Highly Suitable" -> 3

\* C14: the label is "Highly Suitable" from 0.8, "Moderately Suitable" from
\* 0.6 to below 0.8, "Marginally Suitable" from 0.4 to below 0.6, and
\* "Not Suitable" below 0.4; a lower score never has a higher label.
C14_Bands ==
    ret_text # None =>
        /\ ret_text[1] =
            IF ~RLt(arg_score, <<4, 5>>) THEN "Highly Suitable"
            ELSE IF ~RLt(arg_score, <<3, 5>>) THEN "Moderately Suitable"
            ELSE IF ~RLt(arg_score, <<2, 5>>) THEN "Marginally Suitable"
            ELSE "Not Suitable"
        /\ \A lower \in ScoreInputs :
            RLe(lower, arg_score) =>
                Rank(score_to_text(lower)) <= Rank(ret_text[1])

\* the label of a score on the lower bound of a band
C14_Witness ==
    /\ arg_score = <<3, 5>>
    /\ ret_text = <<"Moderately Suitable">>

(***************************************************************************)
(* Properties of the page's score and recommendation                       *)
(***************************************************************************)
\* all ten manual inputs hold the text 0.7
AllManualSevenTenths == \A sub \in AllSubs : manual[sub] = <<"0", ".", "7">>

\* C15 as stated: with the default weights and all ten sub-criteria manually
\* set to 0.7 the page shows the score 0.7 and the recommendation
\* "Highly Suitable".
C15_UniformIsHighlySuitable ==
    AllManualSevenTenths =>
        /\ final_score = <<7, 10>>
        /\ rec = "Highly Suitable"

\* C15 as amended: with the default weights and all ten sub-criteria manually
\* set to 0.7 the page shows the score 0.7 and the recommendation
\* "Moderately Suitable".
C15_UniformIsModeratelySuitable ==
    AllManualSevenTenths =>
        /\ final_score = <<7, 10>>
        /\ rec = "Moderately Suitable"

\* the ten texts 0.7 over fetched raw layers whose own values differ from 0.7,
\* after the script has run again on a calibration edit
C15_Witness ==
    /\ AllManualSevenTenths
    /\ raw_layers # None
    /\ raw_layers[SLOPE] # None
    /\ calib # DefaultCalibration
    /\ \A sub \in AllSubs : site_values[sub] = <<7, 10>>
    /\ final_score = <<7, 10>>
    /\ rec = "Moderately Suitable"

\* C19: every entry of site_values lies in [0,1], and so does the score the
\* page computes from it with its non-negative weights.
C19_UnitInterval ==
    /\ \A sub \in AllSubs : InUnit(site_values[sub])
    /\ InUnit(final_score)

(***************************************************************************)
(* Further properties of the weight model                                  *)
(***************************************************************************)
\* the map gives every sub-criterion the value c
Uniform(sv, c) == DOMAIN sv = AllSubs /\ \A sub \in AllSubs : sv[sub] = c

\* C16: when every sub-criterion has the same value c and the global weights
\* do not sum to 0 the score is c; when every value is 0 the score is 0 under
\* every weight set, the all-zero one included.
C16_UniformScoresItself ==
    (score_out # None /\ score_in # None) =>
        \A c \in UniformValues :
            Uniform(score_in, c) =>
                /\ WeightSum(AllSubs) # Zero => score_out = c
                /\ c = Zero => score_out = Zero

\* a uniform 0.7 scored under edited weights that do not sum to 1
C16_Witness ==
    /\ score_in # None /\ Uniform(score_in, <<7, 10>>)
    /\ nsets > 0
    /\ WeightSum(AllSubs) \notin {Zero, One}
    /\ score_out = <<7, 10>>

\* C17: when the three main weights sum to 1 and the local weights of every
\* criterion sum to 1, the ten global weights sum to 1.
C17_GlobalWeightsSumToOne ==
    (/\ SumOver(main_weights, Criteria) = One
     /\ \A crit \in Criteria :
            SumOver(sub_weights_local[crit], SubsOf(crit)) = One)
        => WeightSum(AllSubs) = One

\* the main weights have been set to 1/2, 1/2 and 0 over the default local
\* weights
C17_Witness ==
    /\ main_weights["Technical"] = <<1, 2>>
    /\ main_weights["Environmental"] = <<1, 2>>
    /\ main_weights["Social"] = Zero
    /\ sub_weights_local = default_sub_weights_local
    /\ WeightSum(AllSubs) = One

\* the positive factors the main weights are multiplied by
ScaleFactors == {Rat(1, 2), <<2, 1>>, <<3, 1>>}

\* the global weights after all three main weights are multiplied by k
ScaledGlobal(k) ==
    compute_global([crit \in Criteria |-> RMul(k, main_weights[crit])],
                   sub_weights_local)

\* C18: score returns a number for every weight set, and when the global
\* weights do not sum to 0, multiplying the three main weights by the same
\* positive factor leaves the score of the same site values unchanged.
C18_ScaleInvariant ==
    score_in # None =>
        /\ score_out # None
        /\ WeightSum(AllSubs) # Zero =>
            \A k \in ScaleFactors : score(ScaledGlobal(k), score_in) = score_out

\* a score of differing site values under weights that do not sum to 1
C18_Witness ==
    /\ score_in # None /\ DOMAIN score_in = AllSubs
    /\ \A c \in UniformValues : ~Uniform(score_in, c)
    /\ SumOver(main_weights, Criteria) = <<3, 2>>
    /\ score_out \notin {None, Zero, One}

(***************************************************************************)
(* Properties of a session                                                 *)
(***************************************************************************)
\* C21: a value the cache holds for a key stays as it is through fetches of
\* other keys and edits of the point, and a later fetch of that key returns
\* it without a call to the source.
C21_MemoIsStable ==
    [][/\ \A k \in DOMAIN fn_cache :
            k \in DOMAIN fn_cache' /\ fn_cache'[k] = fn_cache[k]
       /\ get_cache \subseteq get_cache'
       /\ SessionFetch =>
            \A c \in Calls :
                <<c, point>> \in DOMAIN fn_cache =>
                    /\ c \notin fetch_called'
                    /\ raw_layers'[c] = fn_cache[<<c, point>>]]_vars

\* P1 fetched, then P2 fetched, then P1 fetched again: the last click made no
\* source call and shows the values of the first one
C21_Witness ==
    /\ point = "P1"
    /\ raw_layers # None /\ raw_layers["Latitude"] = <<"P1">>
    /\ \A c \in Calls : <<c, "P1">> \in DOMAIN fn_cache /\ <<c, "P2">> \in DOMAIN fn_cache
    /\ fetch_called = {}
    /\ raw_layers[SLOPE] = <<249, 25>>
    /\ raw_layers[GHI] = fn_cache[<<GHI, "P1">>]

\* C25: after a click made while every source is reachable, every field of
\* the raw layers holds the measured value, also when an earlier fetch of the
\* same point failed.
C25_FailuresAreNotMemoized ==
    (raw_layers # None /\ src_down = {}) =>
        \A c \in Calls : raw_layers[c] = Answered(raw_layers["Latitude"][1])[c]

\* C26: the raw layers the script scores were fetched for the point the
\* latitude and longitude inputs hold.
C26_RawLayersAreOfThePoint ==
    raw_layers # None =>
        /\ raw_layers["Latitude"] = <<point>>
        /\ raw_layers["Longitude"] = <<point>>

(***************************************************************************)
(* Further properties of the resolver                                      *)
(***************************************************************************)
\* C23: a distance the resolver returns is at most max_radius_km, and at most
\* the radius of the query that found the feature.
C23_DistanceWithinLimit ==
    (res_pc = "done" /\ res_ret # None) =>
        /\ RLe(res_ret, res_max)
        /\ RLe(res_ret, res_queries[NoQueries].rad)

\* C24: a call for a known category issues finitely many queries and then
\* returns: there is a number k of widening steps after which the radius
\* start * 1.7^k exceeds max, and the call issues at most k queries.
C24_FinitelyManyQueries ==
    (res_pc # "idle" /\ res_key \in OSM_QUERIES) =>
        \E k \in 0..MaxQueries :
            /\ RLt(res_max, RadiusAt(k))
            /\ NoQueries <= k

(***************************************************************************)
(* Properties of concurrent use of the weight model                        *)
(***************************************************************************)
\* the table before the setter call
PreGlobal == compute_global(default_main_weights, default_sub_weights_local)

\* the table the setter call leaves
PostGlobal == compute_global(main_weights, sub_weights_local)

\* C22: a score call that overlaps one setter call returns the score under the
\* table before the call or the score under the table after it.
C22_ScoreSeesOneTable ==
    sc_pc = "done" =>
        \/ score_out = score(PreGlobal, score_in)
        \/ score_out = score(PostGlobal, score_in)

(***************************************************************************)
(* Properties of the two files                                             *)
(***************************************************************************)
\* C27: after the same setter calls the AHPModel of app2.py holds the tables
\* of that of app.py, and score, norm_benefit, norm_cost and the label of a
\* score return in app2.py what they return in app.py.
C27_FilesAgree ==
    /\ app2_main_weights = main_weights
    /\ app2_sub_weights_local = sub_weights_local
    /\ app2_sub_weights_global = sub_weights_global
    /\ twin_ret2 = twin_ret

\* a score of both objects after two setter calls, neither 0 nor 1
C27_Witness ==
    /\ twin_call = "score"
    /\ nsets >= 2
    /\ main_weights # default_main_weights
    /\ sub_weights_local # default_sub_weights_local
    /\ twin_ret2 \notin {None, Zero, One}
    /\ twin_ret2 = score_out

====
